---- MODULE Spec2Model ----
(***************************************************************************)
(* SagaInventory: the CSV import pipeline (lib/import parseCSV and the     *)
(* validators), the bulk-import handlers of the Products and Customers     *)
(* pages (handleFileChange), the product delete flow, and the sale write   *)
(* path over the sqlite/postgres store.                                    *)
(*                                                                         *)
(* Text is a sequence of one-character strings, so that splitting,         *)
(* trimming, lower-casing and tokenizing are computed character by         *)
(* character as the TypeScript does.                                       *)
(***************************************************************************)
EXTENDS Integers, Sequences, FiniteSets, TLC

VARIABLES
  \* ---- bulk import on the Products page (products.tsx 130-196) or the
  \*      Customers page (products.tsx 410-468)
  page,            \* the page whose handleFileChange runs, "none" before any
  file,            \* text of the file picked in the hidden <input>
  ipc,             \* position of handleFileChange: idle, reading, creating, finished
  isImporting,     \* useState(false), lines 29, 320
  fileInputValue,  \* fileInputRef.current.value: "" or "picked"
  result,          \* what parseCSV resolved with: [data, errors]
  headerCalls,     \* lines handed to the header resolution during the parse
  transformCalls,  \* rows handed to the row transform during the parse
  idx,             \* position of the for..of loop over result.data
  successCount,    \* lines 168, 440
  failCount,       \* lines 169, 441
  posted,          \* create calls issued so far, in issue order
  inFlight,        \* create calls issued and not yet settled
  toasts,          \* toast() calls, in order
  createdRows,     \* rows the server has created for the page's POSTs
  \* ---- the store (schema: part_000 176-211, setup: part_001 21-94)
  productRows,     \* products: id -> [exists, quantity]
  saleRows,        \* sales, in insert order
  saleItemRows,    \* sale_items, in insert order
  txOwner,         \* the request holding the store's write transaction, or "none"
  \* ---- sale requests (POST /api/sales), one per client
  req,             \* client -> the request's position, cart and transaction
  \* ---- Products page, delete flow (products.tsx 26, 65-99, 288-294)
  deletingProduct, \* useState<string | null>(null): the id to delete, or "null"
  deleteInFlight,  \* the id of the DELETE request that was sent, or "none"
  deleteResponse,  \* its response: "none" (not yet), "ok" or "error"
  pageToast,       \* the Products page's latest toast() call, "none" before any
  \* ---- one call of a function of lib/import (part_000 83-137)
  codecCall,       \* the function called, "none" before the call
  codecInput,      \* its argument
  codecOutput,     \* what it returned or threw
  \* ---- the desktop shell (electron/main.js) and the server it spawns
  appState,        \* "off", "launched", "ready", "quitting" or "exited"
  processEnv,      \* process.env of the process that starts the server
  serverProcess,   \* let serverProcess: "undefined", "running" or "killed"
  spawnedBy,       \* who started the server: "none", "shell" or "cli"
  serverEnv,       \* the environment the server process was given
  serverStore,     \* what server/db.ts selected: "none" (not yet), "sqlite",
                   \* "postgres" or "throws"
  mainWindow,      \* let mainWindow: "undefined", "window" or "null"
  timerPending,    \* the setTimeout of line 68 has not fired yet
  createdWith,     \* serverProcess at each createWindow call
  \* ---- the product form of the Products page (products.tsx 25-27, 40-89)
  isFormOpen,      \* useState(false), line 27
  editingProduct,  \* useState<Product | null>(null), line 25: an id or "null"
  openedBy,        \* what opened the form: "none" (closed), "add", "edit", "dialog"
  pending,         \* the mutation requests in flight, in order
  lastSubmit,      \* the latest handleSubmit: its request and what had opened the form
  formToast        \* the latest toast of a mutation, "none" before any

importVars == <<page, file, ipc, isImporting, fileInputValue, result,
                headerCalls, transformCalls, idx, successCount, failCount, posted, inFlight,
                toasts, createdRows>>

storeVars == <<productRows, saleRows, saleItemRows, txOwner>>

deleteVars == <<deletingProduct, deleteInFlight, deleteResponse, pageToast>>

codecVars == <<codecCall, codecInput, codecOutput>>

\* What the store, the sale requests and the delete flow leave alone.
shellVars == <<appState, processEnv, serverProcess, spawnedBy, serverEnv,
               serverStore, mainWindow, timerPending, createdWith>>

formVars == <<isFormOpen, editingProduct, openedBy, pending, lastSubmit, formToast>>

restVars == <<importVars, codecVars, shellVars, formVars>>

vars == <<importVars, storeVars, req, deleteVars, codecVars, shellVars, formVars>>

----------------------------------------------------------------------------
(* Bounds *)

\* Most mutation requests of the product form in flight at once.
MaxPending == 2

\* Longest input file, in lines.
MaxLines == 3

\* Longest cart of a sale request, in line items.
MaxItems == 2

\* Longest cell handed to a validator on its own, in characters.
MaxCellLen == 3

\* Longest line handed to parseCSVLine on its own, in characters.
MaxLineLen == 6

----------------------------------------------------------------------------
(* Characters and the String methods the import code uses *)

LF == "\n"
CR == "\r"
QUOTE == "\""
COMMA == ","

\* The lowest number of a non-empty set of numbers.
lowest(S) == CHOOSE n \in S : \A m \in S : n <= m

\* The sequence f with every element computed.
asTuple(f) == SubSeq(f, 1, Len(f))

\* What String.prototype.trim and the regex class \s treat as white space
\* (of the characters that occur here).
WhiteSpace == {" ", "\t", CR, LF}

UpperCase == <<"A","B","C","D","E","F","G","H","I","J","K","L","M",
               "N","O","P","Q","R","S","T","U","V","W","X","Y","Z">>
LowerCase == <<"a","b","c","d","e","f","g","h","i","j","k","l","m",
               "n","o","p","q","r","s","t","u","v","w","x","y","z">>

LowerOf == [c \in {UpperCase[i] : i \in 1..26} |->
              LowerCase[CHOOSE i \in 1..26 : UpperCase[i] = c]]

toLowerChar(c) == IF c \in DOMAIN LowerOf THEN LowerOf[c] ELSE c

\* String.prototype.toLowerCase
toLowerCase(s) == asTuple([i \in 1..Len(s) |-> toLowerChar(s[i])])

RECURSIVE trimStart(_)
trimStart(s) ==
  IF s = <<>> THEN s
  ELSE IF Head(s) \in WhiteSpace THEN trimStart(Tail(s)) ELSE s

RECURSIVE trimEnd(_)
trimEnd(s) ==
  IF s = <<>> THEN s
  ELSE IF s[Len(s)] \in WhiteSpace THEN trimEnd(SubSeq(s, 1, Len(s) - 1)) ELSE s

\* String.prototype.trim
trim(s) == trimEnd(trimStart(s))

\* text.split(/\r?\n/): the separators are the LFs, each with the CR right
\* before it when there is one; the pieces between them are the lines.
splitLines(text) ==
  LET lfs == {i \in 1..Len(text) : text[i] = LF}
      n == Cardinality(lfs)
      lf(k) == CHOOSE i \in lfs : Cardinality({j \in lfs : j < i}) = k - 1
      start(k) == IF k = 1 THEN 1 ELSE lf(k - 1) + 1
      stop(k) == IF k = n + 1 THEN Len(text)
                 ELSE IF lf(k) - 1 >= start(k) /\ text[lf(k) - 1] = CR
                      THEN lf(k) - 2
                      ELSE lf(k) - 1
  IN asTuple([k \in 1..(n + 1) |-> SubSeq(text, start(k), stop(k))])

isNonBlank(line) == trim(line) # <<>>

\* line 19: text.split(/\r?\n/).filter(line => line.trim())
nonBlankLines(text) == SelectSeq(splitLines(text), isNonBlank)

----------------------------------------------------------------------------
(* parseCSVLine, lines 83-114 *)

\* s holds the loop's variables: i (1-based here), result, current, inQuotes.
RECURSIVE parseCSVLineLoop(_, _)
parseCSVLineLoop(line, s) ==
  IF s.i > Len(line) THEN Append(s.result, trim(s.current))
  ELSE LET char == line[s.i]
           nextIsQuote == s.i + 1 <= Len(line) /\ line[s.i + 1] = QUOTE
       IN IF char = QUOTE
          THEN IF s.inQuotes /\ nextIsQuote
               THEN parseCSVLineLoop(line, [s EXCEPT !.i = @ + 2,
                                                      !.current = Append(@, QUOTE)])
               ELSE parseCSVLineLoop(line, [s EXCEPT !.i = @ + 1,
                                                      !.inQuotes = ~@])
          ELSE IF char = COMMA /\ ~s.inQuotes
               THEN parseCSVLineLoop(line, [s EXCEPT !.i = @ + 1,
                                                      !.result = Append(@, trim(s.current)),
                                                      !.current = <<>>])
               ELSE parseCSVLineLoop(line, [s EXCEPT !.i = @ + 1,
                                                      !.current = Append(@, char)])

\* A tokenizer that toggles on every quote character and never reads a
\* doubled quote as one literal quote.
togglesOnEveryQuote(line) ==
  LET seps == {i \in 1..Len(line) :
                 /\ line[i] = COMMA
                 /\ Cardinality({j \in 1..(i - 1) : line[j] = QUOTE}) % 2 = 0}
      n == Cardinality(seps)
      sep(k) == CHOOSE i \in seps : Cardinality({j \in seps : j < i}) = k - 1
      start(k) == IF k = 1 THEN 1 ELSE sep(k - 1) + 1
      stop(k) == IF k = n + 1 THEN Len(line) ELSE sep(k) - 1
      notQuote(c) == c # QUOTE
  IN asTuple([k \in 1..(n + 1) |->
                trim(SelectSeq(SubSeq(line, start(k), stop(k)), notQuote))])

\* The loop over the whole line.
parseCSVLineWhole(line) ==
  parseCSVLineLoop(line, [i |-> 1, result |-> <<>>, current |-> <<>>, inQuotes |-> FALSE])

\* The same result, with the loop run field by field: the loop is outside
\* quotes exactly where an even number of quote characters lies behind it (a
\* doubled quote counts twice), so the commas at such places are the ones that
\* end a field, and the loop run on the text between two of them yields that
\* one field.
parseCSVLine(line) ==
  LET seps == {i \in 1..Len(line) :
                 /\ line[i] = COMMA
                 /\ Cardinality({j \in 1..(i - 1) : line[j] = QUOTE}) % 2 = 0}
      n == Cardinality(seps)
      sep(k) == CHOOSE i \in seps : Cardinality({j \in seps : j < i}) = k - 1
      start(k) == IF k = 1 THEN 1 ELSE sep(k - 1) + 1
      stop(k) == IF k = n + 1 THEN Len(line) ELSE sep(k) - 1
  IN asTuple([k \in 1..(n + 1) |->
                parseCSVLineWhole(SubSeq(line, start(k), stop(k)))[1]])

----------------------------------------------------------------------------
(* Validators, lines 116-146.  A validator that throws is                  *)
(* [ok |-> FALSE, message |-> ...]; one that returns is                    *)
(* [ok |-> TRUE, value |-> ...].                                           *)

Thrown(fieldName, what) == [ok |-> FALSE, message |-> <<fieldName, what>>]
Returned(v) == [ok |-> TRUE, value |-> v]

validateRequired(value, fieldName) ==
  IF value = <<>> \/ trim(value) = <<>>
  THEN Thrown(fieldName, "is required")
  ELSE Returned(trim(value))

\* [^\s@]
isEmailChar(c) == c \notin WhiteSpace /\ c # "@"

\* /^[^\s@]+@[^\s@]+\.[^\s@]+$/ : a non-empty run, "@", a non-empty run, ".",
\* a non-empty run, the runs free of white space and "@" (a run may hold ".").
emailRegexTest(s) ==
  \E at \in 1..Len(s) : \E dot \in 1..Len(s) :
    /\ s[at] = "@"
    /\ s[dot] = "."
    /\ 1 < at /\ at + 1 < dot /\ dot < Len(s)
    /\ \A i \in 1..Len(s) : i # at => isEmailChar(s[i])

validateEmail(value, fieldName) ==
  LET email == trim(value)
  IN IF ~emailRegexTest(email)
     THEN Thrown(fieldName, "must be a valid email address")
     ELSE Returned(email)

Digits == <<"0","1","2","3","4","5","6","7","8","9">>
HexDigits == Digits \o <<"a","b","c","d","e","f">>

isDigit(c) == \E i \in 1..10 : Digits[i] = c
isHexDigit(c) == \E i \in 1..16 : HexDigits[i] = toLowerChar(c)
digitValue(c) == (CHOOSE i \in 1..16 : HexDigits[i] = toLowerChar(c)) - 1

\* The longest prefix of s made of decimal digits.
RECURSIVE digitsPrefix(_)
digitsPrefix(s) ==
  IF s = <<>> \/ ~isDigit(Head(s)) THEN <<>>
  ELSE <<Head(s)>> \o digitsPrefix(Tail(s))

RECURSIVE hexDigitsPrefix(_)
hexDigitsPrefix(s) ==
  IF s = <<>> \/ ~isHexDigit(Head(s)) THEN <<>>
  ELSE <<Head(s)>> \o hexDigitsPrefix(Tail(s))

RECURSIVE digitsToNat(_, _, _)
digitsToNat(ds, radix, acc) ==
  IF ds = <<>> THEN acc
  ELSE digitsToNat(Tail(ds), radix, acc * radix + digitValue(Head(ds)))

RECURSIVE natToDigits(_)
natToDigits(n) ==
  IF n < 10 THEN <<Digits[n + 1]>>
  ELSE natToDigits(n \div 10) \o <<Digits[(n % 10) + 1]>>

RECURSIVE stripTrailingZeros(_)
stripTrailingZeros(ds) ==
  IF ds = <<>> THEN ds
  ELSE IF ds[Len(ds)] = "0" THEN stripTrailingZeros(SubSeq(ds, 1, Len(ds) - 1))
  ELSE ds

\* A JavaScript number: NaN, or sign, integer part and the digits of the
\* fraction (without trailing zeros).
NaN == [nan |-> TRUE, neg |-> FALSE, int |-> 0, frac |-> <<>>]
Num(neg, int, frac) == [nan |-> FALSE, neg |-> neg, int |-> int, frac |-> frac]

isNaN(num) == num.nan
NumberIsInteger(num) == ~num.nan /\ num.frac = <<>>

\* The optional sign that parseFloat and parseInt read after the leading
\* white space.
hasSign(t) == t # <<>> /\ Head(t) \in {"+", "-"}
unsigned(t) == IF hasSign(t) THEN Tail(t) ELSE t

\* parseFloat (line 124): skips leading white space and reads the longest
\* prefix that is a decimal literal, whatever follows it; NaN when there is
\* none.  (The literal forms with an exponent part and "Infinity" are left
\* out: no cell of the files below has them.)
parseFloat(s) ==
  LET t == trimStart(s)
      u == unsigned(t)
      ip == digitsPrefix(u)
      rest == SubSeq(u, Len(ip) + 1, Len(u))
      fp == IF rest # <<>> /\ Head(rest) = "." THEN digitsPrefix(Tail(rest)) ELSE <<>>
  IN IF ip = <<>> /\ fp = <<>> THEN NaN
     ELSE Num(hasSign(t) /\ Head(t) = "-", digitsToNat(ip, 10, 0), stripTrailingZeros(fp))

\* parseInt with no radix (line 132): skips leading white space, reads a sign,
\* then the longest prefix of digits (hexadecimal ones after "0x"), whatever
\* follows it; NaN when there is none.
parseInt(s) ==
  LET t == trimStart(s)
      u == unsigned(t)
      hex == Len(u) >= 2 /\ u[1] = "0" /\ u[2] \in {"x", "X"}
      ds == IF hex THEN hexDigitsPrefix(SubSeq(u, 3, Len(u))) ELSE digitsPrefix(u)
  IN IF ds = <<>> THEN NaN
     ELSE Num(hasSign(t) /\ Head(t) = "-", digitsToNat(ds, IF hex THEN 16 ELSE 10, 0), <<>>)

\* Number.prototype.toString (of the numbers parseFloat yields here).
numberToString(num) ==
  IF num.nan THEN <<"N","a","N">>
  ELSE (IF num.neg /\ (num.int # 0 \/ num.frac # <<>>) THEN <<"-">> ELSE <<>>)
       \o natToDigits(num.int)
       \o (IF num.frac = <<>> THEN <<>> ELSE <<".">> \o num.frac)

\* The integer a number without fraction stands for.
integerValue(num) == IF num.neg THEN 0 - num.int ELSE num.int

validateNumber(value, fieldName) ==
  LET num == parseFloat(value)
  IN IF isNaN(num)
     THEN Thrown(fieldName, "must be a valid number")
     ELSE Returned(num)

validateInteger(value, fieldName) ==
  LET num == parseInt(value)
  IN IF isNaN(num) \/ ~NumberIsInteger(num)
     THEN Thrown(fieldName, "must be a valid integer")
     ELSE Returned(num)

----------------------------------------------------------------------------
(* The Products page's column mapping and row transform,                   *)
(* products.tsx 138-155                                                    *)

hStockCode == <<"S","t","o","c","k"," ","C","o","d","e">>
hProductName == <<"P","r","o","d","u","c","t"," ","N","a","m","e">>
hCategory == <<"C","a","t","e","g","o","r","y">>
hBuyingPrice == <<"B","u","y","i","n","g"," ","P","r","i","c","e">>
hSellingPrice == <<"S","e","l","l","i","n","g"," ","P","r","i","c","e">>
hQuantity == <<"Q","u","a","n","t","i","t","y">>
hSupplierId == <<"S","u","p","p","l","i","e","r"," ","I","D">>

productsColumnMapping ==
  << [csvHeader |-> hStockCode, field |-> "stockCode"],
     [csvHeader |-> hProductName, field |-> "name"],
     [csvHeader |-> hCategory, field |-> "category"],
     [csvHeader |-> hBuyingPrice, field |-> "buyingPrice"],
     [csvHeader |-> hSellingPrice, field |-> "sellingPrice"],
     [csvHeader |-> hQuantity, field |-> "quantity"],
     [csvHeader |-> hSupplierId, field |-> "supplierId"] >>

\* line 154: row["Supplier ID"]?.trim() || null
Null == [isNull |-> TRUE, value |-> <<>>]
trimOrNull(cell) ==
  IF trim(cell) = <<>> THEN Null ELSE [isNull |-> FALSE, value |-> trim(cell)]

\* An object literal's properties are evaluated in order: the first validator
\* that throws ends the transform.
productsTransform(row) ==
  LET sc == validateRequired(row[hStockCode], "Stock Code")
      n == validateRequired(row[hProductName], "Product Name")
      c == validateRequired(row[hCategory], "Category")
      bp == validateNumber(row[hBuyingPrice], "Buying Price")
      sp == validateNumber(row[hSellingPrice], "Selling Price")
      q == validateInteger(row[hQuantity], "Quantity")
  IN IF ~sc.ok THEN sc
     ELSE IF ~n.ok THEN n
     ELSE IF ~c.ok THEN c
     ELSE IF ~bp.ok THEN bp
     ELSE IF ~sp.ok THEN sp
     ELSE IF ~q.ok THEN q
     ELSE Returned([stockCode |-> sc.value, name |-> n.value, category |-> c.value,
                    buyingPrice |-> numberToString(bp.value),
                    sellingPrice |-> numberToString(sp.value),
                    quantity |-> integerValue(q.value),
                    supplierId |-> trimOrNull(row[hSupplierId])])

----------------------------------------------------------------------------
(* The Customers page's column mapping and row transform,                  *)
(* products.tsx 418-427                                                    *)

hName == <<"N","a","m","e">>
hPhone == <<"P","h","o","n","e">>
hEmail == <<"E","m","a","i","l">>

customersColumnMapping ==
  << [csvHeader |-> hName, field |-> "name"],
     [csvHeader |-> hPhone, field |-> "phone"],
     [csvHeader |-> hEmail, field |-> "email"] >>

customersTransform(row) ==
  LET n == validateRequired(row[hName], "Name")
      p == validateRequired(row[hPhone], "Phone")
      e == validateEmail(row[hEmail], "Email")
  IN IF ~n.ok THEN n
     ELSE IF ~p.ok THEN p
     ELSE IF ~e.ok THEN e
     ELSE Returned([name |-> n.value, phone |-> p.value, email |-> e.value])

Pages == {"products", "customers"}

\* The mapping and the transform each page hands to parseCSV, and the URL it
\* posts its records to (lines 136-155 and 176; 416-427 and 444).
columnMappingOf(pg) ==
  IF pg = "products" THEN productsColumnMapping ELSE customersColumnMapping

endpointOf(pg) ==
  IF pg = "products" THEN "/api/products" ELSE "/api/customers"

\* line 65: transform ? transform(rowData) : rowData
applyTransform(transform, rowData) ==
  IF transform = "products" THEN productsTransform(rowData)
  ELSE IF transform = "customers" THEN customersTransform(rowData)
  ELSE Returned(rowData)

----------------------------------------------------------------------------
(* parseCSV, lines 8-81 *)

\* A comparison of the header cell as written, in place of line 35's.
headerMatchesExactly(h, csvHeader) == h = csvHeader

\* line 35: the predicate of headers.findIndex
headerMatches(h, csvHeader) ==
  trim(toLowerCase(h)) = trim(toLowerCase(csvHeader))

\* headers.findIndex(...): the first matching position, 1-based; 0 stands for -1.
findIndex(headers, csvHeader) ==
  LET hits == {i \in 1..Len(headers) : headerMatches(headers[i], csvHeader)}
  IN IF hits = {} THEN 0 ELSE lowest(hits)

ColumnError(csvHeader) == [kind |-> "column", csvHeader |-> csvHeader]
RowError(row, message) == [kind |-> "row", row |-> row, message |-> message]
EmptyError == [kind |-> "empty"]
ReadError == [kind |-> "read"]

\* A header stage that stops at the first header it does not find.
headerErrorsFirstOnly(headers, columnMapping) ==
  LET missing == {j \in 1..Len(columnMapping) :
                    findIndex(headers, columnMapping[j].csvHeader) = 0}
  IN IF missing = {} THEN <<>>
     ELSE <<ColumnError(columnMapping[CHOOSE j \in missing :
                                        \A k \in missing : j <= k].csvHeader)>>

\* lines 34-41: one error per mapping entry whose header is not found, in
\* mapping order.
RECURSIVE headerErrorsLoop(_, _, _, _)
headerErrorsLoop(headers, columnMapping, j, errors) ==
  IF j > Len(columnMapping) THEN errors
  ELSE headerErrorsLoop(headers, columnMapping, j + 1,
         IF findIndex(headers, columnMapping[j].csvHeader) = 0
         THEN Append(errors, ColumnError(columnMapping[j].csvHeader))
         ELSE errors)

headerErrors(headers, columnMapping) ==
  headerErrorsLoop(headers, columnMapping, 1, <<>>)

\* lines 34-40: what findIndex returned for each entry of the mapping
foundIndices(headers, columnMapping) ==
  asTuple([j \in 1..Len(columnMapping) |->
             findIndex(headers, columnMapping[j].csvHeader)])

\* lines 31, 39, 56: columnIndices, a Map keyed by field (a later entry for
\* the same field replaces an earlier one), and columnIndices.get(field).
columnIndex(indices, columnMapping, field) ==
  LET js == {j \in 1..Len(columnMapping) : columnMapping[j].field = field}
  IN indices[CHOOSE j \in js : \A k \in js : k <= j]

\* lines 55-62: rowData[csvHeader] = values[index] || ''
rowDataOf(values, indices, columnMapping) ==
  LET keys == {columnMapping[j].csvHeader : j \in 1..Len(columnMapping)}
      lastFor(k) == CHOOSE j \in 1..Len(columnMapping) :
                      /\ columnMapping[j].csvHeader = k
                      /\ \A m \in 1..Len(columnMapping) :
                           columnMapping[m].csvHeader = k => m <= j
      cell(k) == LET index == columnIndex(indices, columnMapping,
                                          columnMapping[lastFor(k)].field)
                 IN IF index > Len(values) THEN <<>> ELSE values[index]
  IN [k \in keys |-> cell(k)]

\* line 68: `Error on row ${i + 1}`, i the 0-based position in lines
rowNumber(i) == i + 1

\* A catch block that leaves the row loop.
abortsOnFirstRowError(failed) == failed

\* lines 67-69: the catch block records the error and does not leave the loop
abortsAfterRowError(failed) == FALSE

\* lines 49-70.  k is the 1-based position in lines (the loop's i is k - 1).
RECURSIVE dataRowsLoop(_, _, _, _, _)
dataRowsLoop(lines, indices, columnMapping, transform, acc) ==
  IF acc.k > Len(lines) \/ abortsAfterRowError(acc.failed) THEN acc
  ELSE LET line == trim(lines[acc.k])
       IN IF line = <<>>
          THEN dataRowsLoop(lines, indices, columnMapping, transform,
                            [acc EXCEPT !.k = @ + 1])
          ELSE LET values == parseCSVLine(line)
                   rowData == rowDataOf(values, indices, columnMapping)
                   t == applyTransform(transform, rowData)
               IN dataRowsLoop(lines, indices, columnMapping, transform,
                    IF t.ok
                    THEN [acc EXCEPT !.k = @ + 1,
                                     !.data = Append(@, t.value),
                                     !.calls = Append(@, rowData)]
                    ELSE [acc EXCEPT !.k = @ + 1,
                                     !.errors = Append(@, RowError(rowNumber(acc.k - 1), t.message)),
                                     !.calls = Append(@, rowData),
                                     !.failed = TRUE])

\* An empty file that resolves with no error at all.
emptyWithoutError ==
  [data |-> <<>>, errors |-> <<>>, headerCalls |-> <<>>, calls |-> <<>>]

\* line 22: resolve({ data: [], errors: ['CSV file is empty'] })
emptyResult ==
  [data |-> <<>>, errors |-> <<EmptyError>>, headerCalls |-> <<>>, calls |-> <<>>]

\* reader.onload, lines 16-73.  headerCalls and calls are not part of what the
\* promise resolves with: they list the lines handed to the header resolution
\* (lines 27-41) and the rows handed to the transform.
parseCSV(text, columnMapping, transform) ==
  LET lines == nonBlankLines(text)
  IN IF Len(lines) = 0
     THEN emptyResult
     ELSE LET headerLine == lines[1]
              headers == parseCSVLine(headerLine)
              errors == headerErrors(headers, columnMapping)
          IN IF Len(errors) > 0
             THEN [data |-> <<>>, errors |-> errors, headerCalls |-> <<headerLine>>,
                   calls |-> <<>>]
             ELSE LET acc == dataRowsLoop(lines, foundIndices(headers, columnMapping),
                               columnMapping, transform,
                               [k |-> 2, data |-> <<>>, errors |-> <<>>,
                                calls |-> <<>>, failed |-> FALSE])
                  IN [data |-> acc.data, errors |-> acc.errors,
                      headerCalls |-> <<headerLine>>, calls |-> acc.calls]

----------------------------------------------------------------------------
(* Input files *)

lineHeader == <<"N","a","m","e",",","P","h","o","n","e",",","E","m","a","i","l">>
lineHeaderLoose == <<"n","a","m","e"," ",","," ","P","H","O","N","E",",","e","m","a","i","l">>
lineHeaderNoEmail == <<"N","a","m","e",",","P","h","o","n","e">>
lineGood == <<"a",",","1",",","a","@","b",".","c">>
lineBadEmail == <<"a",",","1",",","a","b">>
lineQuoted == <<"\"","b",",","c","\"",",","1",",","a","@","b",".","c">>
lineNoName == <<" ",",","1",",","a","@","b",".","c">>
lineBlank == <<>>
lineSpaces == <<" ">>

customersLines == {lineHeader, lineHeaderLoose, lineHeaderNoEmail, lineGood,
                   lineBadEmail, lineQuoted, lineNoName, lineBlank, lineSpaces}

pHeader ==
  <<"S","t","o","c","k"," ","C","o","d","e",",","P","r","o","d","u","c","t",
    " ","N","a","m","e",",","C","a","t","e","g","o","r","y",",","B","u","y",
    "i","n","g"," ","P","r","i","c","e",",","S","e","l","l","i","n","g"," ",
    "P","r","i","c","e",",","Q","u","a","n","t","i","t","y",",","S","u","p",
    "p","l","i","e","r"," ","I","D">>
pHeaderShort ==
  <<"S","t","o","c","k"," ","C","o","d","e",",","P","r","o","d","u","c","t",
    " ","N","a","m","e",",","C","a","t","e","g","o","r","y",",","B","u","y",
    "i","n","g"," ","P","r","i","c","e">>
pGood ==
  <<"S","1",",","P","e","n",",","O","f","f","i","c","e",",","1",".","5","0",
    ",","2",",","3",",","s","u","p","1">>
pBadPrice ==
  <<"S","2",",","I","n","k",",","O","f","f","i","c","e",",","a","b","c",",",
    "2",",","3",",">>
pFraction ==
  <<"S","3",",","C","a","p",",","O","f","f","i","c","e",",","1",",",".","5",
    ",","3",".","7">>

productsLines == {pHeader, pHeaderShort, pGood, pBadPrice, pFraction, lineBlank}


LineBreaks == {<<LF>>, <<CR, LF>>}

RECURSIVE joinLines(_, _)
joinLines(ls, eol) ==
  IF ls = <<>> THEN <<>>
  ELSE IF Len(ls) = 1 THEN ls[1]
  ELSE ls[1] \o eol \o joinLines(Tail(ls), eol)

\* Every file of at most MaxLines lines, each drawn from lines, written with
\* either line-break convention.
Texts(lines) ==
  {joinLines(ls, eol) : ls \in UNION {[1..n -> lines] : n \in 0..MaxLines},
                        eol \in LineBreaks}

productsTexts == Texts(productsLines)
customersTexts == Texts(customersLines)

\* The files picked on each page.
TextsOf(pg) == IF pg = "products" THEN productsTexts ELSE customersTexts

----------------------------------------------------------------------------
(* The store: schema (part_000 176-211) and setup (part_001 17-94) *)

Clients == {"c1", "c2"}
\* p1 and p2 are rows of products; p9 is an id no row has.
ProductIds == {"p1", "p2", "p9"}

\* The products table before any sale: quantity is integer NOT NULL
\* (part_000 183), here 2 of p1 and 1 of p2.
InitialProducts ==
  [p \in ProductIds |->
     [exists |-> p # "p9",
      quantity |-> IF p = "p1" THEN 2 ELSE IF p = "p2" THEN 1 ELSE 0]]

\* Line quantities a cart may ask for (insertSaleItemSchema: an integer).
Quantities == {1, 2}

LineItems == [productId : ProductIds, quantity : Quantities]

Carts == UNION {[1..n -> LineItems] : n \in 0..MaxItems}

\* insertSaleSchema, part_000 248-257: items is z.array(insertSaleItemSchema)
\* with no minimum length, quantity an integer: the empty array parses.
insertSaleSchemaAccepts(items) ==
  \A i \in 1..Len(items) : items[i].quantity \in Int

\* A sale_items table whose product_id has no REFERENCES clause.
noForeignKey == FALSE

\* part_001 79 (and part_000 204): sale_items.product_id REFERENCES products(id)
saleItemsReferenceProducts == TRUE

\* part_001 24: the only pragma the setup runs
setupPragmas == {"journal_mode = WAL"}

\* better-sqlite3 compiles SQLite with SQLITE_DEFAULT_FOREIGN_KEYS=1: a
\* connection enforces foreign keys unless a pragma turns them off.
driverDefaultForeignKeys == TRUE

foreignKeysEnforced ==
  IF "foreign_keys = OFF" \in setupPragmas THEN FALSE
  ELSE IF "foreign_keys = ON" \in setupPragmas THEN TRUE
  ELSE driverDefaultForeignKeys

\* A row of sale_items refers to the product and the store enforces it.
referenced(id) ==
  /\ saleItemsReferenceProducts
  /\ foreignKeysEnforced
  /\ \E i \in 1..Len(saleItemRows) : saleItemRows[i].productId = id

IdleRequest ==
  [pc |-> "idle", items |-> <<>>, pre |-> InitialProducts, work |-> InitialProducts,
   error |-> "none", saleId |-> 0]

InitStore ==
  /\ productRows = InitialProducts
  /\ saleRows = <<>>
  /\ saleItemRows = <<>>
  /\ txOwner = "none"
  /\ req = [c \in Clients |-> IdleRequest]
  /\ deletingProduct = "null"
  /\ deleteInFlight = "none"
  /\ deleteResponse = "none"
  /\ pageToast = "none"

----------------------------------------------------------------------------
(* recordSale (spec 4.4 and 5): the sale write path *)

\* A recordSale without the empty-cart check.
acceptsEmptyCart(items) == FALSE

\* "Fails with EmptyCartError if items is empty."
rejectsEmptyCart(items) == Len(items) = 0

\* A recordSale that reads and writes outside any transaction.
beginsWithoutWaiting(owner) == TRUE

\* "must execute inside a single database transaction so that concurrent sales
\* against the same product serialize": a write transaction begins only when
\* no other one is open.
canBegin(owner) == owner = "none"

\* The lines of a cart applied in order to the quantities the transaction
\* holds: the product is resolved (ProductNotFoundError), the line is checked
\* against the quantity held at that point (InsufficientStockError), and the
\* quantity is decremented; check and decrement are one unit of the same
\* transaction.
RECURSIVE applyLines(_, _, _)
applyLines(items, i, work) ==
  IF i > Len(items) THEN [error |-> "none", work |-> work]
  ELSE LET p == items[i].productId
           q == items[i].quantity
       IN IF ~work[p].exists
          THEN [error |-> "ProductNotFound", work |-> work]
          ELSE IF work[p].quantity - q < 0
          THEN [error |-> "InsufficientStock", work |-> work]
          ELSE applyLines(items, i + 1, [work EXCEPT ![p].quantity = @ - q])

\* A rollback that leaves the decrements made before the failing line.
keepsPartialDecrements(committed, work) == work

\* "either all of {sale, items, stock decrements} are committed, or none are":
\* a rolled-back transaction leaves the committed rows as they were.
afterRollback(committed, work) == committed

\* The request arrives; its body is parsed with insertSaleSchema.
SubmitSale(c, items) ==
  /\ req[c].pc = "idle"
  /\ insertSaleSchemaAccepts(items)
  /\ req' = [req EXCEPT ![c].pc = "received", ![c].items = items]
  /\ UNCHANGED <<storeVars, deleteVars, restVars>>

\* recordSale starts: an empty cart is rejected, otherwise the transaction
\* begins and reads the current products.
BeginSale(c) ==
  /\ req[c].pc = "received"
  /\ IF rejectsEmptyCart(req[c].items)
     THEN /\ req' = [req EXCEPT ![c].pc = "failed", ![c].error = "EmptyCart"]
          /\ UNCHANGED txOwner
     ELSE /\ canBegin(txOwner)
          /\ txOwner' = c
          /\ req' = [req EXCEPT ![c].pc = "inTx", ![c].pre = productRows,
                                ![c].work = productRows]
  /\ UNCHANGED <<productRows, saleRows, saleItemRows, deleteVars, restVars>>

\* Inside the transaction: every line is resolved, checked and applied; the
\* receipt number is taken.
ApplySale(c) ==
  /\ req[c].pc = "inTx"
  /\ LET r == applyLines(req[c].items, 1, req[c].work)
     IN req' = [req EXCEPT ![c].pc = IF r.error = "none" THEN "ready" ELSE "aborting",
                           ![c].error = r.error,
                           ![c].work = r.work,
                           ![c].saleId = Len(saleRows) + 1]
  /\ UNCHANGED <<storeVars, deleteVars, restVars>>

\* COMMIT: the sale row, its item rows and the decremented quantities become
\* the store's rows together.
CommitSale(c) ==
  /\ req[c].pc = "ready"
  /\ productRows' = [p \in ProductIds |->
                       IF \E i \in 1..Len(req[c].items) : req[c].items[i].productId = p
                       THEN req[c].work[p] ELSE productRows[p]]
  /\ saleRows' = Append(saleRows, [id |-> req[c].saleId, client |-> c])
  /\ saleItemRows' = saleItemRows \o
       [i \in 1..Len(req[c].items) |->
          [saleId |-> req[c].saleId, client |-> c,
           productId |-> req[c].items[i].productId,
           quantity |-> req[c].items[i].quantity]]
  /\ txOwner' = "none"
  /\ req' = [req EXCEPT ![c].pc = "done"]
  /\ UNCHANGED <<deleteVars, restVars>>

\* ROLLBACK: the request fails with its error.
RollbackSale(c) ==
  /\ req[c].pc = "aborting"
  /\ productRows' = afterRollback(productRows, req[c].work)
  /\ txOwner' = "none"
  /\ req' = [req EXCEPT ![c].pc = "failed"]
  /\ UNCHANGED <<saleRows, saleItemRows, deleteVars, restVars>>

SaleStep(c) ==
  \/ \E items \in Carts : SubmitSale(c, items)
  \/ BeginSale(c)
  \/ ApplySale(c)
  \/ CommitSale(c)
  \/ RollbackSale(c)

----------------------------------------------------------------------------
(* Products page: deleting a product, products.tsx 65-99 and 288-294 *)

\* handleDelete, lines 91-93: the row's delete button; the confirm dialog opens.
HandleDelete(id) ==
  /\ deletingProduct = "null"
  /\ productRows[id].exists
  /\ deletingProduct' = id
  /\ UNCHANGED <<deleteInFlight, deleteResponse, pageToast, storeVars, req, restVars>>

\* DeleteConfirmDialog onOpenChange(false), line 290
CloseDeleteDialog ==
  /\ deletingProduct # "null"
  /\ deletingProduct' = "null"
  /\ UNCHANGED <<deleteInFlight, deleteResponse, pageToast, storeVars, req, restVars>>

\* confirmDelete, lines 95-99: deleteMutation.mutate(deletingProduct) sends
\* DELETE /api/products/:id (lines 66-67).
ConfirmDelete ==
  /\ deletingProduct # "null"
  /\ deleteInFlight = "none"
  /\ deleteInFlight' = deletingProduct
  /\ deleteResponse' = "none"
  /\ UNCHANGED <<deletingProduct, pageToast, storeVars, req, restVars>>

\* The server deletes the products row (spec 6: "delete fails if referenced by
\* dependent rows"; spec 3: "referential integrity enforced by the store").
\* The store takes the delete when no write transaction is open.
ServerDeleteProduct ==
  /\ deleteInFlight # "none"
  /\ deleteResponse = "none"
  /\ txOwner = "none"
  /\ IF referenced(deleteInFlight) \/ ~productRows[deleteInFlight].exists
     THEN /\ deleteResponse' = "error"
          /\ UNCHANGED productRows
     ELSE /\ deleteResponse' = "ok"
          /\ productRows' = [productRows EXCEPT ![deleteInFlight].exists = FALSE]
  /\ UNCHANGED <<deletingProduct, deleteInFlight, pageToast, saleRows, saleItemRows,
                 txOwner, req, restVars>>

\* deleteMutation.onSuccess, lines 68-72
DeleteOnSuccess ==
  /\ deleteResponse = "ok"
  /\ pageToast' = ("Product deleted successfully")
  /\ deletingProduct' = "null"
  /\ deleteInFlight' = "none"
  /\ deleteResponse' = "none"
  /\ UNCHANGED <<storeVars, req, restVars>>

\* deleteMutation.onError, lines 73-75
DeleteOnError ==
  /\ deleteResponse = "error"
  /\ pageToast' = ("Failed to delete product")
  /\ deleteInFlight' = "none"
  /\ deleteResponse' = "none"
  /\ UNCHANGED <<deletingProduct, storeVars, req, restVars>>

DeleteStep ==
  \/ \E id \in ProductIds : HandleDelete(id)
  \/ CloseDeleteDialog
  \/ ConfirmDelete
  \/ ServerDeleteProduct
  \/ DeleteOnSuccess
  \/ DeleteOnError

----------------------------------------------------------------------------
(* Products.handleFileChange, products.tsx 130-196, and                    *)
(* Customers.handleFileChange, products.tsx 410-468                        *)

NoResult == [data |-> <<>>, errors |-> <<>>]

\* A finally block that leaves the flag and the file input as they are.
finallyKeepsFlag ==
  /\ isImporting' = isImporting
  /\ fileInputValue' = fileInputValue
  /\ ipc' = "finished"

\* lines 190-195, 462-467: the finally block
Finally ==
  /\ isImporting' = FALSE
  /\ fileInputValue' = ""
  /\ ipc' = "finished"

\* lines 158-165, 430-437: any parse error ends the import before the create
\* loop
ImportErrorsToast(errors) ==
  [title |-> "Import errors",
   description |-> SubSeq(errors, 1, IF Len(errors) < 3 THEN Len(errors) ELSE 3)]

\* lines 179-183, 451-455
ImportCompleteToast(ok, failed) ==
  [title |-> "Import complete", imported |-> ok, failed |-> failed]

\* lines 184-189, 456-461: the catch block's toast
ImportFailedToast == [title |-> "Import failed"]

\* lines 179-183 and 451-455, then the finally block.  A statement of the try
\* block that throws (threw) lands in the catch block instead.
Complete(ok, failed) ==
  /\ \E threw \in BOOLEAN :
       toasts' = Append(toasts, IF threw THEN ImportFailedToast
                                ELSE ImportCompleteToast(ok, failed))
  /\ Finally

\* A loop that starts every create without awaiting the one before.
nextCallsAllAtOnce(data, from) == SubSeq(data, from, Len(data))

\* lines 170-177, 442-449: `await apiRequest(...)` inside for..of: the loop starts one
\* create and goes on only when it has settled.
nextCalls(data, from) ==
  IF from <= Len(data) THEN <<data[from]>> ELSE <<>>

\* lines 158/430: if (result.errors.length > 0) { toast; return }
hasImportErrors(r) == Len(r.errors) > 0

\* What follows `await parseCSV(...)` once it has resolved with r.
AfterParse(r) ==
  /\ result' = [data |-> r.data, errors |-> r.errors]
  /\ headerCalls' = r.headerCalls
  /\ transformCalls' = r.calls
  /\ IF hasImportErrors(r)
     THEN /\ toasts' = Append(toasts, ImportErrorsToast(r.errors))
          /\ Finally
          /\ UNCHANGED <<posted, inFlight>>
     ELSE LET calls == nextCalls(r.data, 1)
          IN IF calls = <<>>
             THEN /\ Complete(0, 0)
                  /\ UNCHANGED <<posted, inFlight>>
             ELSE /\ posted' = posted \o calls
                  /\ inFlight' = Len(calls)
                  /\ ipc' = "creating"
                  /\ UNCHANGED <<toasts, isImporting, fileInputValue>>
  /\ UNCHANGED <<page, file, idx, successCount, failCount, createdRows>>

\* onChange with no file picked, lines 131-132, 411-412: returns at once.
HandleFileChangeNoFile ==
  /\ ipc = "idle"
  /\ UNCHANGED importVars

\* onChange with a file, lines 130-136, 410-416: sets the flag and starts the
\* read.  The Import button is disabled while isImporting (lines 497-501).
HandleFileChange(pg, text) ==
  /\ ipc = "idle"
  /\ ~isImporting
  /\ page' = pg
  /\ file' = text
  /\ fileInputValue' = "picked"
  /\ isImporting' = TRUE
  /\ ipc' = "reading"
  /\ UNCHANGED <<result, headerCalls, transformCalls, idx, successCount, failCount, posted,
                 inFlight, toasts, createdRows>>

\* reader.onload (import.ts 16-73), then the handler after its await.
ReaderOnload ==
  /\ ipc = "reading"
  /\ AfterParse(parseCSV(file, columnMappingOf(page), page))

\* reader.onerror (import.ts 75-77), then the handler after its await.
ReaderOnerror ==
  /\ ipc = "reading"
  /\ AfterParse([data |-> <<>>, errors |-> <<ReadError>>, headerCalls |-> <<>>,
                 calls |-> <<>>])

\* The outstanding POST to the page's endpoint settles: apiRequest resolves
\* (the row exists on the server) or throws; the loop counts it and goes on.
CreateSettled(ok) ==
  /\ ipc = "creating"
  /\ inFlight > 0
  /\ LET record == posted[idx + 1]
         calls == IF inFlight = 1 THEN nextCalls(result.data, Len(posted) + 1) ELSE <<>>
         sc == IF ok THEN successCount + 1 ELSE successCount
         fc == IF ok THEN failCount ELSE failCount + 1
     IN /\ idx' = idx + 1
        /\ successCount' = sc
        /\ failCount' = fc
        /\ createdRows' = IF ok
                          THEN Append(createdRows, [url |-> endpointOf(page), body |-> record])
                          ELSE createdRows
        /\ posted' = posted \o calls
        /\ inFlight' = inFlight - 1 + Len(calls)
        /\ IF inFlight - 1 + Len(calls) = 0
           THEN Complete(sc, fc)
           ELSE UNCHANGED <<toasts, isImporting, fileInputValue, ipc>>
  /\ UNCHANGED <<page, file, result, headerCalls, transformCalls>>

InitImport ==
  /\ page = "none"
  /\ file = <<>>
  /\ ipc = "idle"
  /\ isImporting = FALSE
  /\ fileInputValue = ""
  /\ result = NoResult
  /\ headerCalls = <<>>
  /\ transformCalls = <<>>
  /\ idx = 0
  /\ successCount = 0
  /\ failCount = 0
  /\ posted = <<>>
  /\ inFlight = 0
  /\ toasts = <<>>
  /\ createdRows = <<>>

ImportStep ==
  \/ HandleFileChangeNoFile
  \/ \E pg \in Pages : \E text \in TextsOf(pg) : HandleFileChange(pg, text)
  \/ ReaderOnload
  \/ ReaderOnerror
  \/ \E ok \in BOOLEAN : CreateSettled(ok)

NextImport == ImportStep /\ UNCHANGED <<storeVars, req, deleteVars, codecVars, shellVars, formVars>>

----------------------------------------------------------------------------
(* One call of validateInteger or of parseCSVLine *)

CellAlphabet == {"3", "7", ".", "-", "a", " "}

\* Every cell of at most MaxCellLen characters of CellAlphabet.
Cells == UNION {[1..n -> CellAlphabet] : n \in 0..MaxCellLen}

LineAlphabet == {"a", " ", COMMA, QUOTE}

\* "Acme, Inc",100,5
lineAcme ==
  <<"\"","A","c","m","e",","," ","I","n","c","\"",",","1","0","0",",","5">>

\* "She said ""hi""",1,1
lineSheSaid ==
  <<"\"","S","h","e"," ","s","a","i","d"," ","\"","\"","h","i","\"","\"","\"",",","1",",","1">>

\* Every line of at most MaxLineLen characters of LineAlphabet, and the two
\* lines above.
CodecLines ==
  UNION {[1..n -> LineAlphabet] : n \in 0..MaxLineLen} \cup {lineAcme, lineSheSaid}

InitCodec ==
  /\ codecCall = "none"
  /\ codecInput = <<>>
  /\ codecOutput = <<>>

\* The Products row transform's call, products.tsx 153.
CallValidateInteger(value) ==
  /\ codecCall = "none"
  /\ codecCall' = "validateInteger"
  /\ codecInput' = value
  /\ codecOutput' = validateInteger(value, "Quantity")
  /\ UNCHANGED <<importVars, storeVars, req, deleteVars, shellVars, formVars>>

\* parseCSV's call on a line, part_000 28 and 54.
CallParseCSVLine(line) ==
  /\ codecCall = "none"
  /\ codecCall' = "parseCSVLine"
  /\ codecInput' = line
  /\ codecOutput' = parseCSVLineWhole(line)
  /\ UNCHANGED <<importVars, storeVars, req, deleteVars, shellVars, formVars>>

NextCodec ==
  \/ \E value \in Cells : CallValidateInteger(value)
  \/ \E line \in CodecLines : CallParseCSVLine(line)

----------------------------------------------------------------------------
(* The desktop shell, electron/main.js, and the store selection of the      *)
(* server, server/db.ts (part_001 8-25, 89-94).  An environment is a        *)
(* function from variable names to Unset or to a text.                      *)

Unset == [set |-> FALSE, text |-> <<>>]
Text(t) == [set |-> TRUE, text |-> t]

EnvNames == {"NODE_ENV", "ELECTRON_MODE", "DATABASE_URL", "PORT", "HOME"}

textTrue == <<"t","r","u","e">>
textFalse == <<"f","a","l","s","e">>
textProduction == <<"p","r","o","d","u","c","t","i","o","n">>
textDevelopment == <<"d","e","v","e","l","o","p","m","e","n","t">>
text5000 == <<"5","0","0","0">>
sqlitePrefix == <<"s","q","l","i","t","e",":">>
\* path.join(app.getPath('userData'), 'saga-inventory.db')
userDataDb == <<"/","u","/","s",".","d","b">>
postgresUrl == <<"p","o","s","t","g","r","e","s",":","/","/","h","/","d">>
otherSqliteUrl == <<"s","q","l","i","t","e",":","/","x",".","d","b">>
upperSqliteUrl == <<"S","Q","L","i","t","e",":","/","x">>

\* The environments a process is started in.
Environments ==
  {[n \in EnvNames |->
      CASE n = "NODE_ENV" -> nodeEnv
        [] n = "ELECTRON_MODE" -> electronMode
        [] n = "DATABASE_URL" -> databaseUrl
        [] n = "HOME" -> Text(<<"/","h">>)
        [] OTHER -> Unset] :
     nodeEnv \in {Unset, Text(textDevelopment)},
     electronMode \in {Unset, Text(textTrue), Text(textFalse), Text(<<>>)},
     databaseUrl \in {Unset, Text(<<>>), Text(postgresUrl), Text(otherSqliteUrl),
                      Text(upperSqliteUrl)}}

\* An environment in which the inherited variables win over the shell's.
inheritedWins(env) ==
  [n \in EnvNames |->
     IF env[n].set THEN env[n]
     ELSE CASE n = "NODE_ENV" -> Text(textProduction)
            [] n = "ELECTRON_MODE" -> Text(textTrue)
            [] n = "DATABASE_URL" -> Text(sqlitePrefix \o userDataDb)
            [] n = "PORT" -> Text(text5000)
            [] OTHER -> env[n]]

\* lines 42-48: { ...process.env, NODE_ENV, ELECTRON_MODE, DATABASE_URL, PORT }
spawnEnv(env) ==
  [n \in EnvNames |->
     CASE n = "NODE_ENV" -> Text(textProduction)
       [] n = "ELECTRON_MODE" -> Text(textTrue)
       [] n = "DATABASE_URL" -> Text(sqlitePrefix \o userDataDb)
       [] n = "PORT" -> Text(text5000)
       [] OTHER -> env[n]]

startsWith(t, prefix) ==
  Len(t) >= Len(prefix) /\ SubSeq(t, 1, Len(prefix)) = prefix

\* part_001 line 8: process.env.ELECTRON_MODE === 'true'
isElectron(env) == env["ELECTRON_MODE"] = Text(textTrue)

\* part_001 lines 11-15 and 21: an unset or empty DATABASE_URL throws;
\* otherwise the embedded store when isElectron and the url starts with
\* 'sqlite:', else the networked one (lines 89-93).
selectStore(env) ==
  LET databaseUrl == env["DATABASE_URL"]
  IN IF ~databaseUrl.set \/ databaseUrl.text = <<>> THEN "throws"
     ELSE IF isElectron(env) /\ startsWith(databaseUrl.text, sqlitePrefix)
          THEN "sqlite"
          ELSE "postgres"

InitShell ==
  /\ appState = "off"
  /\ processEnv = [n \in EnvNames |-> Unset]
  /\ serverProcess = "undefined"
  /\ spawnedBy = "none"
  /\ serverEnv = [n \in EnvNames |-> Unset]
  /\ serverStore = "none"
  /\ mainWindow = "undefined"
  /\ timerPending = FALSE
  /\ createdWith = {}

\* What the shell and the server's start leave alone.
notShell == <<importVars, storeVars, req, deleteVars, codecVars, formVars>>

shellRuns == appState \in {"launched", "ready", "quitting"}

\* The shell is started in some environment.
Launch(env) ==
  /\ appState = "off"
  /\ spawnedBy = "none"
  /\ appState' = "launched"
  /\ processEnv' = env
  /\ UNCHANGED <<serverProcess, spawnedBy, serverEnv, serverStore, mainWindow,
                 timerPending, createdWith>>
  /\ UNCHANGED notShell

\* The server is started by hand, without the shell, in some environment.
StartServerFromCli(env) ==
  /\ appState = "off"
  /\ spawnedBy = "none"
  /\ spawnedBy' = "cli"
  /\ processEnv' = env
  /\ serverEnv' = env
  /\ serverProcess' = "running"
  /\ UNCHANGED <<appState, serverStore, mainWindow, timerPending, createdWith>>
  /\ UNCHANGED notShell

\* lines 65-71: app.on('ready'): startServer() (lines 32-63), then the timer.
Ready ==
  /\ appState = "launched"
  /\ appState' = "ready"
  /\ serverEnv' = spawnEnv(processEnv)
  /\ serverProcess' = "running"
  /\ spawnedBy' = "shell"
  /\ timerPending' = TRUE
  /\ UNCHANGED <<processEnv, serverStore, mainWindow, createdWith>>
  /\ UNCHANGED notShell

\* The server process evaluates server/db.ts.
ServerBoot ==
  /\ serverProcess = "running"
  /\ serverStore = "none"
  /\ serverStore' = selectStore(serverEnv)
  /\ UNCHANGED <<appState, processEnv, serverProcess, spawnedBy, serverEnv,
                 mainWindow, timerPending, createdWith>>
  /\ UNCHANGED notShell

\* lines 12-30
createWindow ==
  /\ mainWindow' = "window"
  /\ createdWith' = createdWith \cup {serverProcess}

\* lines 68-70: the timer fires.
TimerExpiry ==
  /\ shellRuns
  /\ timerPending
  /\ timerPending' = FALSE
  /\ createWindow
  /\ UNCHANGED <<appState, processEnv, serverProcess, spawnedBy, serverEnv,
                 serverStore>>
  /\ UNCHANGED notShell

\* lines 27-29: the window's 'closed' event.
WindowClosed ==
  /\ shellRuns
  /\ mainWindow = "window"
  /\ mainWindow' = "null"
  /\ UNCHANGED <<appState, processEnv, serverProcess, spawnedBy, serverEnv,
                 serverStore, timerPending, createdWith>>
  /\ UNCHANGED notShell

\* lines 74-76, 87-89: if (serverProcess) serverProcess.kill()
killServer ==
  serverProcess' = IF serverProcess = "undefined" THEN "undefined" ELSE "killed"

\* lines 73-78: app.on('window-all-closed'), emitted when the last window has
\* closed and the application is not already quitting.  app.quit() emits
\* before-quit, whose handler kills again.
WindowAllClosed ==
  /\ appState = "ready"
  /\ mainWindow = "null"
  /\ killServer
  /\ appState' = "quitting"
  /\ UNCHANGED <<processEnv, spawnedBy, serverEnv, serverStore, mainWindow,
                 timerPending, createdWith>>
  /\ UNCHANGED notShell

\* lines 80-84: app.on('activate').  mainWindow is undefined, not null,
\* before the first window.
Activate ==
  /\ shellRuns
  /\ IF mainWindow = "null"
     THEN createWindow
     ELSE UNCHANGED <<mainWindow, createdWith>>
  /\ UNCHANGED <<appState, processEnv, serverProcess, spawnedBy, serverEnv,
                 serverStore, timerPending>>
  /\ UNCHANGED notShell

\* lines 86-90: app.on('before-quit'), the user quits the application.
BeforeQuit ==
  /\ appState \in {"launched", "ready"}
  /\ killServer
  /\ appState' = "quitting"
  /\ UNCHANGED <<processEnv, spawnedBy, serverEnv, serverStore, mainWindow,
                 timerPending, createdWith>>
  /\ UNCHANGED notShell

\* The quit completes: the shell's process ends and takes no more events.
Exit ==
  /\ appState = "quitting"
  /\ appState' = "exited"
  /\ timerPending' = FALSE
  /\ UNCHANGED <<processEnv, serverProcess, spawnedBy, serverEnv, serverStore,
                 mainWindow, createdWith>>
  /\ UNCHANGED notShell

ShellStep ==
  \/ \E env \in Environments : Launch(env)
  \/ \E env \in Environments : StartServerFromCli(env)
  \/ Ready
  \/ ServerBoot
  \/ TimerExpiry
  \/ WindowClosed
  \/ WindowAllClosed
  \/ Activate
  \/ BeforeQuit
  \/ Exit

NextShell == ShellStep

----------------------------------------------------------------------------
(* The product form of the Products page, products.tsx 25-27, 40-89,       *)
(* 241-244, 277-286                                                         *)

\* The products of the table.
FormProducts == {"p1", "p2"}

\* What the product form leaves alone.
notForm == <<importVars, storeVars, req, deleteVars, codecVars, shellVars>>

NoSubmit == [method |-> "none", id |-> "null", openedBy |-> "none"]

InitForm ==
  /\ isFormOpen = FALSE
  /\ editingProduct = "null"
  /\ openedBy = "none"
  /\ pending = <<>>
  /\ lastSubmit = NoSubmit
  /\ formToast = "none"

\* lines 86-89: handleEdit, the table's onEdit
HandleEdit(product) ==
  /\ editingProduct' = product
  /\ isFormOpen' = TRUE
  /\ openedBy' = "edit"
  /\ UNCHANGED <<pending, lastSubmit, formToast>>
  /\ UNCHANGED notForm

\* line 241: the Add Product button, onClick={() => setIsFormOpen(true)}
AddProductClick ==
  /\ isFormOpen' = TRUE
  /\ openedBy' = IF isFormOpen THEN openedBy ELSE "add"
  /\ UNCHANGED <<editingProduct, pending, lastSubmit, formToast>>
  /\ UNCHANGED notForm

\* A dialog whose closing leaves editingProduct as it is.
closeKeepsEditing(open) ==
  /\ isFormOpen' = open
  /\ UNCHANGED editingProduct
  /\ openedBy' = IF ~open THEN "none"
                 ELSE IF isFormOpen THEN openedBy ELSE "dialog"
  /\ UNCHANGED <<pending, lastSubmit, formToast>>
  /\ UNCHANGED notForm

\* lines 279-282: the dialog's onOpenChange
OnOpenChange(open) ==
  /\ isFormOpen' = open
  /\ editingProduct' = IF ~open THEN "null" ELSE editingProduct
  /\ openedBy' = IF ~open THEN "none"
                 ELSE IF isFormOpen THEN openedBy ELSE "dialog"
  /\ UNCHANGED <<pending, lastSubmit, formToast>>
  /\ UNCHANGED notForm

\* lines 78-84: handleSubmit, the open form's onSubmit
HandleSubmit ==
  /\ isFormOpen
  /\ Len(pending) < MaxPending
  /\ LET request == IF editingProduct # "null"
                    THEN [method |-> "PATCH", id |-> editingProduct]
                    ELSE [method |-> "POST", id |-> "null"]
     IN /\ pending' = Append(pending, request)
        /\ lastSubmit' = [method |-> request.method, id |-> request.id,
                          openedBy |-> openedBy]
  /\ UNCHANGED <<isFormOpen, editingProduct, openedBy, formToast>>
  /\ UNCHANGED notForm

\* lines 43-49 and 55-62: a mutation request settles; a successful update
\* resets editingProduct.
MutationSettled(k, ok) ==
  /\ k \in 1..Len(pending)
  /\ pending' = SubSeq(pending, 1, k - 1) \o SubSeq(pending, k + 1, Len(pending))
  /\ formToast' = IF pending[k].method = "PATCH"
                  THEN IF ok THEN "Product updated successfully"
                       ELSE "Failed to update product"
                  ELSE IF ok THEN "Product created successfully"
                       ELSE "Failed to create product"
  /\ editingProduct' = IF pending[k].method = "PATCH" /\ ok THEN "null"
                       ELSE editingProduct
  /\ UNCHANGED <<isFormOpen, openedBy, lastSubmit>>
  /\ UNCHANGED notForm

FormStep ==
  \/ \E product \in FormProducts : HandleEdit(product)
  \/ AddProductClick
  \/ \E open \in BOOLEAN : OnOpenChange(open)
  \/ HandleSubmit
  \/ \E k \in 1..MaxPending : \E ok \in BOOLEAN : MutationSettled(k, ok)

NextForm == FormStep

----------------------------------------------------------------------------
(* Specifications *)

Init == InitImport /\ InitStore /\ InitCodec /\ InitShell /\ InitForm

\* One bulk import, on the Products page or on the Customers page.
SpecImport == Init /\ [][NextImport]_vars

NextSale == \E c \in Clients : SaleStep(c)

\* Two clients recording sales concurrently.
SpecSale == Init /\ [][NextSale]_vars

NextDelete == SaleStep("c1") \/ DeleteStep

\* The Products page deleting products while one client records a sale.
SpecDelete == Init /\ [][NextDelete]_vars

\* One call of a validator or of the line tokenizer, on any bounded input.
SpecCodec == Init /\ [][NextCodec]_vars

\* The file read ends, in onload or in onerror, and every create call
\* settles.  onload and onerror are enabled in the same states, those with the
\* read under way, and either one ends the read: weak fairness on onerror says
\* that the read does not stay under way for ever, whichever of the two ends it.
Settles ==
  /\ ReaderOnerror \/ \E ok \in BOOLEAN : CreateSettled(ok)
  /\ UNCHANGED <<storeVars, req, deleteVars, codecVars, shellVars, formVars>>

\* One bulk import in which whatever is awaited settles in the end.
SpecImportFair == Init /\ [][NextImport]_vars /\ WF_vars(Settles)

\* The product form under edits, adds, closes, submits and settled mutations.
SpecForm == Init /\ [][NextForm]_vars

\* The desktop shell from launch to exit, or one server started by hand.
SpecShell == Init /\ [][NextShell]_vars

----------------------------------------------------------------------------
(* What the import claims speak of, stated over the picked file *)

\* The parse ran (reader.onload) and the handler has gone on from it.
ParsedByOnload ==
  /\ ipc \in {"creating", "finished"}
  /\ result.errors # <<ReadError>>

RECURSIVE ascending(_)
ascending(S) ==
  IF S = {} THEN <<>>
  ELSE <<lowest(S)>> \o ascending(S \ {lowest(S)})

SameHeaderName(a, b) == toLowerCase(trim(a)) = toLowerCase(trim(b))

\* The file as the claims read it:
\*   hasHeader  it has a non-blank line (the first one is the header row);
\*   missing    the positions in the column mapping whose header the header
\*              row lacks;
\*   header     the header line;
\*   rows       its data rows (the non-blank lines after the header) in file
\*              order, each with its 1-based line number in the file and the
\*              outcome of the row transform on it.
FileFacts(pg, text) ==
  LET raw == splitLines(text)
      nonBlank == {n \in 1..Len(raw) : trim(raw[n]) # <<>>}
      headerNumber == lowest(nonBlank)
      cells == parseCSVLine(raw[headerNumber])
      mapping == columnMappingOf(pg)
      columns == asTuple([j \in 1..Len(mapping) |->
                   {c \in 1..Len(cells) : SameHeaderName(cells[c], mapping[j].csvHeader)}])
      missing == {j \in 1..Len(mapping) : columns[j] = {}}
      cellUnder(values, j) ==
        LET i == lowest(columns[j])
        IN IF i <= Len(values) THEN values[i] ELSE <<>>
      outcome(n) ==
        LET values == parseCSVLine(trim(raw[n]))
            row == [name \in {mapping[j].csvHeader : j \in 1..Len(mapping)} |->
                      cellUnder(values, CHOOSE j \in 1..Len(mapping) :
                                          mapping[j].csvHeader = name)]
        IN IF pg = "products" THEN productsTransform(row) ELSE customersTransform(row)
      numbers == ascending(nonBlank \ {headerNumber})
  IN IF nonBlank = {}
     THEN [hasHeader |-> FALSE, missing |-> {}, header |-> <<>>, rows |-> <<>>]
     ELSE [hasHeader |-> TRUE, missing |-> missing, header |-> raw[headerNumber],
           rows |-> IF missing # {}
                    THEN [k \in 1..Len(numbers) |-> [number |-> numbers[k]]]
                    ELSE asTuple([k \in 1..Len(numbers) |->
                            [number |-> numbers[k], outcome |-> outcome(numbers[k])]])]

HeaderStageSucceeds(facts) == facts.hasHeader /\ facts.missing = {}

rowSucceeds(row) == row.outcome.ok
rowFails(row) == ~row.outcome.ok
GoodRows(facts) == SelectSeq(facts.rows, rowSucceeds)
BadRows(facts) == SelectSeq(facts.rows, rowFails)

----------------------------------------------------------------------------
(* C1 *)

\* C1 (as claimed): when the header stage succeeds and some data rows fail
\* their transform, the finished import has issued one create call for every
\* successfully transformed row, in order, rows after the failing one included.
C1_CreatesDespiteRowErrors ==
  LET facts == FileFacts(page, file)
      good == GoodRows(facts)
  IN (/\ ipc = "finished"
      /\ ParsedByOnload
      /\ HeaderStageSucceeds(facts)
      /\ BadRows(facts) # <<>>)
     => /\ Len(posted) = Len(good)
        /\ \A k \in 1..Len(posted) : posted[k] = good[k].outcome.value

----------------------------------------------------------------------------
(* C2 *)

\* C2: when the header row lacks a declared header, parseCSV resolves with no
\* records and exactly one error per missing declared header, naming it, and
\* the row transform is not invoked for any data row.
C2_MissingHeaderFailsWholeParse ==
  LET facts == FileFacts(page, file)
  IN (ParsedByOnload /\ facts.hasHeader /\ facts.missing # {})
     => /\ result.data = <<>>
        /\ transformCalls = <<>>
        /\ Len(result.errors) = Cardinality(facts.missing)
        /\ \A j \in facts.missing :
             Cardinality({i \in 1..Len(result.errors) :
                result.errors[i] = ColumnError(columnMappingOf(page)[j].csvHeader)}) = 1

\* A header row that lacks exactly the Email column, followed by a data row.
C2_Witness ==
  LET facts == FileFacts(page, file)
  IN /\ ParsedByOnload
     /\ page = "customers"
     /\ facts.hasHeader
     /\ facts.missing = {3}
     /\ Len(facts.rows) >= 1
     /\ result.errors = <<ColumnError(hEmail)>>

----------------------------------------------------------------------------
(* C13 *)

\* C13: when the file has no non-blank line, parseCSV resolves with no records
\* and exactly one error, the empty-file error, and neither the header
\* resolution nor the row transform is run.
C13_EmptyFileOneError ==
  (ParsedByOnload /\ ~FileFacts(page, file).hasHeader)
    => /\ result.data = <<>>
       /\ Len(result.errors) = 1
       /\ result.errors[1] = EmptyError
       /\ headerCalls = <<>>
       /\ transformCalls = <<>>

\* A file of blank lines only, one of them of spaces, has been parsed.
C13_Witness ==
  /\ ipc = "finished"
  /\ result.errors = <<EmptyError>>
  /\ ~FileFacts(page, file).hasHeader
  /\ \E i \in 1..Len(file) : file[i] = " "
  /\ \E i \in 1..Len(file) : file[i] = LF

----------------------------------------------------------------------------
(* C3 *)

\* C3: when the header row has every declared header and the transform
\* succeeds on every data row, parseCSV resolves with no errors and exactly one
\* record per data row, the k-th record being the transform of the k-th data row.
C3_ValidInputOneRecordPerRow ==
  LET facts == FileFacts(page, file)
  IN (/\ ParsedByOnload
      /\ HeaderStageSucceeds(facts)
      /\ \A k \in 1..Len(facts.rows) : rowSucceeds(facts.rows[k]))
     => /\ result.errors = <<>>
        /\ Len(result.data) = Len(facts.rows)
        /\ \A k \in 1..Len(facts.rows) : result.data[k] = facts.rows[k].outcome.value

\* Two data rows with different records under a header written in another case.
C3_Witness ==
  LET facts == FileFacts(page, file)
  IN /\ ParsedByOnload
     /\ HeaderStageSucceeds(facts)
     /\ facts.header = lineHeaderLoose
     /\ Len(facts.rows) = 2
     /\ \A k \in 1..2 : rowSucceeds(facts.rows[k])
     /\ Len(result.data) = 2
     /\ result.data[1] # result.data[2]

----------------------------------------------------------------------------
(* C4 *)

\* C4: once the header stage has succeeded, each data row yields either its
\* record or exactly one error, rows after a failing row are still processed,
\* records + errors = non-blank data lines, and records and errors are each in
\* row order.
C4_RowErrorsDoNotAbort ==
  LET facts == FileFacts(page, file)
      good == GoodRows(facts)
      bad == BadRows(facts)
  IN (ParsedByOnload /\ HeaderStageSucceeds(facts))
     => /\ Len(result.data) + Len(result.errors) = Len(facts.rows)
        /\ Len(transformCalls) = Len(facts.rows)
        /\ Len(result.data) = Len(good)
        /\ \A k \in 1..Len(good) : result.data[k] = good[k].outcome.value
        /\ Len(result.errors) = Len(bad)
        /\ \A k \in 1..Len(bad) :
             /\ result.errors[k].kind = "row"
             /\ result.errors[k].message = bad[k].outcome.message
        /\ \A k \in 1..Len(result.errors) : \A m \in 1..Len(result.errors) :
             k < m => result.errors[k].row < result.errors[m].row

\* A failing row followed by a row that is parsed into a record.
C4_Witness ==
  LET facts == FileFacts(page, file)
  IN /\ ParsedByOnload
     /\ HeaderStageSucceeds(facts)
     /\ Len(facts.rows) = 2
     /\ rowFails(facts.rows[1])
     /\ rowSucceeds(facts.rows[2])
     /\ Len(result.errors) = 1
     /\ result.data = <<facts.rows[2].outcome.value>>

----------------------------------------------------------------------------
(* C5 *)

\* C5 (as claimed): the N of each "Error on row N" is the 1-based line number,
\* in the input text, of the data row whose transform failed.
C5_RowNumberIsLineNumber ==
  LET facts == FileFacts(page, file)
      bad == BadRows(facts)
  IN (ParsedByOnload /\ HeaderStageSucceeds(facts))
     => \A k \in 1..Len(result.errors) :
          k <= Len(bad) => result.errors[k].row = bad[k].number

----------------------------------------------------------------------------
(* C10 *)

\* C10: creates are issued one at a time in record order (at most one is
\* outstanding and the next is issued only when all before it have settled), a
\* failed create does not stop the following ones, and when the loop has ended
\* successCount + failCount is the number of parsed records.
C10_SequentialCreates ==
  /\ inFlight <= 1
  /\ Len(posted) <= Len(result.data)
  /\ \A k \in 1..Len(posted) : posted[k] = result.data[k]
  /\ Len(posted) = idx + inFlight
  /\ idx = successCount + failCount
  /\ (ipc = "finished" /\ ~hasImportErrors(result))
       => /\ Len(posted) = Len(result.data)
          /\ successCount + failCount = Len(result.data)
          /\ Len(createdRows) = successCount

\* The first create failed and the second was still issued and succeeded.
C10_Witness ==
  /\ ipc = "finished"
  /\ Len(result.data) = 2
  /\ failCount = 1
  /\ successCount = 1
  /\ createdRows = <<[url |-> endpointOf(page), body |-> result.data[2]]>>
  /\ toasts = <<ImportCompleteToast(1, 1)>>

----------------------------------------------------------------------------
(* What the sale claims speak of *)

RECURSIVE soldIn(_, _)
\* The quantity of product p in the rows of sale_items.
soldIn(rows, p) ==
  IF rows = <<>> THEN 0
  ELSE (IF Head(rows).productId = p THEN Head(rows).quantity ELSE 0)
       + soldIn(Tail(rows), p)

salesOf(c) == SelectSeq(saleRows, LAMBDA row : row.client = c)
itemsOf(c) == SelectSeq(saleItemRows, LAMBDA row : row.client = c)

Finished(c) == req[c].pc \in {"done", "failed"}

\* Every quantity is what the committed sales left of the initial stock.
StockIsInitialMinusSold ==
  \A p \in ProductIds :
    productRows[p].quantity = InitialProducts[p].quantity - soldIn(saleItemRows, p)

\* Some line of c's cart asks for more than the product held when recordSale
\* read it, every product of the cart being there.
HasInsufficientLine(c) ==
  /\ \A i \in 1..Len(req[c].items) : req[c].pre[req[c].items[i].productId].exists
  /\ \E i \in 1..Len(req[c].items) :
       req[c].pre[req[c].items[i].productId].quantity - req[c].items[i].quantity < 0

----------------------------------------------------------------------------
(* C6 *)

\* C6: a sale with a line whose product.quantity - line.quantity < 0 is rejected
\* with the insufficient-stock error and leaves the store as it was: no Sale
\* row, no SaleItem row, and no product's quantity decremented, the products of
\* its satisfiable lines included.
C6_InsufficientStockRejectsWholeSale ==
  \A c \in Clients :
    (Finished(c) /\ HasInsufficientLine(c))
    => /\ req[c].pc = "failed"
       /\ req[c].error = "InsufficientStock"
       /\ salesOf(c) = <<>>
       /\ itemsOf(c) = <<>>
       /\ StockIsInitialMinusSold
       /\ (saleRows = <<>> => productRows = InitialProducts)

\* A cart whose first line (1 of p1) is satisfiable and whose second line (2 of
\* p2, 1 in stock) is not: rejected, both quantities as before.
C6_Witness ==
  \E c \in Clients :
    /\ req[c].pc = "failed"
    /\ req[c].error = "InsufficientStock"
    /\ req[c].items = << [productId |-> "p1", quantity |-> 1],
                         [productId |-> "p2", quantity |-> 2] >>
    /\ saleRows = <<>>
    /\ productRows = InitialProducts

----------------------------------------------------------------------------
(* C7 *)

\* C7: under every interleaving of the clients' recordSale operations, no
\* quantity is negative, the quantity sold by committed sales never exceeds
\* the initial stock, and each sale is either fully committed (its sale row,
\* all its item rows, all its decrements) or has left no row and no decrement.
C7_ConcurrentSalesAtomic ==
  /\ \A p \in ProductIds :
       /\ productRows[p].quantity >= 0
       /\ soldIn(saleItemRows, p) <= InitialProducts[p].quantity
  /\ StockIsInitialMinusSold
  /\ \A i \in 1..Len(saleRows) : \A j \in 1..Len(saleRows) :
       saleRows[i].id = saleRows[j].id => i = j
  /\ \A c \in Clients :
       IF req[c].pc = "done"
       THEN /\ Len(salesOf(c)) = 1
            /\ Len(itemsOf(c)) = Len(req[c].items)
            /\ \A i \in 1..Len(req[c].items) :
                 /\ itemsOf(c)[i].saleId = salesOf(c)[1].id
                 /\ itemsOf(c)[i].productId = req[c].items[i].productId
                 /\ itemsOf(c)[i].quantity = req[c].items[i].quantity
       ELSE salesOf(c) = <<>> /\ itemsOf(c) = <<>>

\* c1's transaction has checked and decremented 2 of p1 and is about to commit
\* while c2's request for 1 of p1, satisfiable against the committed stock,
\* waits to begin.
C7_Witness ==
  /\ txOwner = "c1"
  /\ req["c1"].pc = "ready"
  /\ req["c1"].items = << [productId |-> "p1", quantity |-> 2] >>
  /\ req["c2"].pc = "received"
  /\ req["c2"].items = << [productId |-> "p1", quantity |-> 1] >>
  /\ productRows["p1"].quantity = 2

----------------------------------------------------------------------------
(* C8 *)

\* C8: a sale request with an empty items list is rejected with the empty-cart
\* error, and every persisted Sale has at least one SaleItem.
C8_NoSaleWithoutItems ==
  /\ \A i \in 1..Len(saleRows) :
       \E j \in 1..Len(saleItemRows) : saleItemRows[j].saleId = saleRows[i].id
  /\ \A c \in Clients :
       (req[c].pc \notin {"idle", "received"} /\ req[c].items = <<>>)
       => /\ req[c].pc = "failed"
          /\ req[c].error = "EmptyCart"
          /\ salesOf(c) = <<>>

\* One client's empty cart was rejected; the other's sale is persisted.
C8_Witness ==
  \E c \in Clients : \E d \in Clients :
    /\ req[c].pc = "failed"
    /\ req[c].error = "EmptyCart"
    /\ req[c].items = <<>>
    /\ req[d].pc = "done"
    /\ Len(saleRows) = 1

----------------------------------------------------------------------------
(* C9 *)

ReferencedByAnItem(id) ==
  \E i \in 1..Len(saleItemRows) : saleItemRows[i].productId = id

\* C9: on the embedded store as the setup configures it, the delete of a
\* product that a SaleItem refers to is answered with an error and the product
\* row remains: every product a SaleItem refers to is in the store.
C9_ReferencedProductNotDeleted ==
  /\ \A i \in 1..Len(saleItemRows) : productRows[saleItemRows[i].productId].exists
  /\ (deleteInFlight # "none" /\ deleteResponse # "none"
      /\ ReferencedByAnItem(deleteInFlight))
     => /\ deleteResponse = "error"
        /\ productRows[deleteInFlight].exists

\* The delete of a sold product has been answered with an error.
C9_Witness ==
  /\ deleteInFlight # "none"
  /\ deleteResponse = "error"
  /\ ReferencedByAnItem(deleteInFlight)
  /\ productRows[deleteInFlight].exists
  /\ deletingProduct = deleteInFlight

----------------------------------------------------------------------------
(* C11 *)

\* The text of an integer: an optional sign and one or more decimal digits
\* (white space around it aside).
IsIntegerText(value) ==
  LET digits == unsigned(trim(value))
  IN /\ digits # <<>>
     /\ \A i \in 1..Len(digits) : isDigit(digits[i])

\* C11 (as claimed): validateInteger returns a number only for the text of an
\* integer; for every other cell, fractional values such as 3.7 included, it
\* fails with a message naming the field.
C11_RejectsNonIntegers ==
  codecCall = "validateInteger"
    => IF IsIntegerText(codecInput)
       THEN codecOutput.ok
       ELSE codecOutput = Thrown("Quantity", "must be a valid integer")

----------------------------------------------------------------------------
(* The tokenizer as the specification words it, read off the line without  *)
(* a loop.  The tokenizer is inside a quoted field where an odd number of  *)
(* quote characters lies behind it.  A comma outside quotes ends a field.  *)
(* In a run of quote characters, the first one of a run that starts        *)
(* outside quotes opens the field; after it the quotes pair up, each pair  *)
(* yielding one literal quote (kept here at the pair's second character),  *)
(* and a last unpaired one closes the field.                               *)
quotesBefore(line, i) == Cardinality({j \in 1..(i - 1) : line[j] = QUOTE})

insideQuotes(line, i) == quotesBefore(line, i) % 2 = 1

\* Where the run of quote characters holding position i begins.
runStart(line, i) ==
  lowest({p \in 1..i : \A j \in p..i : line[j] = QUOTE})

endsField(line, i) == line[i] = COMMA /\ ~insideQuotes(line, i)

isLiteral(line, i) ==
  IF line[i] = QUOTE
  THEN LET p == runStart(line, i)
       IN IF insideQuotes(line, p)
          THEN (i - p) % 2 = 1
          ELSE (i - p) % 2 = 0 /\ i - p >= 2
  ELSE ~endsField(line, i)

referenceTokenizer(line) ==
  LET ends == {i \in 1..Len(line) : endsField(line, i)}
      n == Cardinality(ends)
      fieldOf(i) == 1 + Cardinality({e \in ends : e < i})
      literals(k) == {i \in 1..Len(line) : isLiteral(line, i) /\ fieldOf(i) = k}
      nth(S, m) == CHOOSE i \in S : Cardinality({j \in S : j < i}) = m - 1
      content(k) == [m \in 1..Cardinality(literals(k)) |-> line[nth(literals(k), m)]]
  IN asTuple([k \in 1..(n + 1) |-> trim(asTuple(content(k)))])

\* C12: on every line over letter, space, comma and double-quote up to the
\* bound, and on the two example lines, parseCSVLine returns what the
\* specification's tokenizer returns: a comma outside quotes ends a field, a
\* comma inside quotes is literal, a doubled quote inside a quoted field is
\* one literal quote, and each field is trimmed.  The first example yields
\* Acme, Inc / 100 / 5; the first field of the second is She said "hi".
C12_MatchesReferenceTokenizer ==
  codecCall = "parseCSVLine"
    => /\ codecOutput = referenceTokenizer(codecInput)
       /\ codecOutput = parseCSVLine(codecInput)
       /\ codecInput = lineAcme
            => codecOutput = <<<<"A","c","m","e",","," ","I","n","c">>, <<"1","0","0">>, <<"5">>>>
       /\ codecInput = lineSheSaid
            => codecOutput[1] = <<"S","h","e"," ","s","a","i","d"," ","\"","h","i","\"">>

\* A line with a comma inside quotes and a doubled quote has been tokenized.
C12_Witness ==
  /\ codecCall = "parseCSVLine"
  /\ \E i \in 1..Len(codecInput) : codecInput[i] = COMMA /\ insideQuotes(codecInput, i)
  /\ \E i \in 1..Len(codecInput) : codecInput[i] = QUOTE /\ isLiteral(codecInput, i)
  /\ Len(codecOutput) = 1

----------------------------------------------------------------------------
(* C14 *)

bothHold(env) ==
  /\ env["ELECTRON_MODE"] = Text(textTrue)
  /\ env["DATABASE_URL"].set
  /\ startsWith(env["DATABASE_URL"].text, sqlitePrefix)

\* C14: whatever environment the shell inherited, the environment of the
\* server it spawns has ELECTRON_MODE 'true' and a DATABASE_URL that starts
\* with 'sqlite:', and that server selects the embedded store, never the
\* networked one; any server selects the embedded store exactly when both
\* hold in its environment.
C14_ShellServerUsesEmbeddedStore ==
  /\ spawnedBy = "shell"
       => /\ bothHold(serverEnv)
          /\ serverStore \in {"none", "sqlite"}
  /\ serverStore # "none" => (serverStore = "sqlite" <=> bothHold(serverEnv))

\* The shell inherited an environment that names the networked store and
\* switches the desktop mode off, and its server has selected a store.
C14_Witness ==
  /\ spawnedBy = "shell"
  /\ processEnv["DATABASE_URL"] = Text(postgresUrl)
  /\ processEnv["ELECTRON_MODE"] = Text(textFalse)
  /\ serverStore = "sqlite"

----------------------------------------------------------------------------
(* C16 *)

\* C16 (as claimed): under any ordering of ready, the timer's expiry,
\* activate, a window's closed, window-all-closed and before-quit, createWindow
\* runs only when the server process has been spawned and has not been killed
\* by the shell.
C16_WindowOnlyWithLiveServer ==
  createdWith \subseteq {"running"}

----------------------------------------------------------------------------
(* C15 *)

\* C15: an import that has set isImporting sets it back to false and clears
\* the file input in the end, whichever way the handler leaves (parse errors,
\* all creates done, an exception), given that the read and every create
\* settle; and isImporting is false whenever no import is in progress, in
\* particular after an onChange with no file.
C15_BusyFlagCleared ==
  /\ isImporting ~> (~isImporting /\ fileInputValue = "" /\ ipc = "finished")
  /\ [](ipc \in {"idle", "finished"} => ~isImporting)
  /\ [][isImporting' /\ ~isImporting => file' # file \/ page' # page \/ ipc' = "reading"]_vars

\* An import of two rows, one create failed, has ended in the catch block
\* with the flag down and the file input cleared.
C15_Witness ==
  /\ ipc = "finished"
  /\ successCount = 1
  /\ failCount = 1
  /\ toasts = <<ImportFailedToast>>
  /\ ~isImporting
  /\ fileInputValue = ""

----------------------------------------------------------------------------
(* C17 *)

\* C17: after any sequence of handleEdit, Add Product clicks, dialog opens
\* and closes, submits and settled mutations, a closed form has editingProduct
\* null; and a submit of a form that Add Product opened from the closed state
\* issues a create (POST), never an update (PATCH).
C17_ClosedFormNotEditing ==
  /\ ~isFormOpen => editingProduct = "null"
  /\ lastSubmit.openedBy = "add" => lastSubmit.method = "POST"

\* A product was edited and its update sent, the form was closed and opened
\* again with Add Product, and that form was submitted while the update was
\* still in flight.
C17_Witness ==
  /\ lastSubmit.openedBy = "add"
  /\ lastSubmit.method = "POST"
  /\ Len(pending) = 2
  /\ pending[1].method = "PATCH"
  /\ pending[2].method = "POST"

====
